---- MODULE Spec2Model ----
(***************************************************************************)
(* Income Trading Cockpit (app.py): one run of the script as a state       *)
(* machine, plus the dividend lookup get_next_exdiv, the trading-calendar  *)
(* aligner and the parameter sweep of the backtest engine.                 *)
(*                                                                         *)
(* Units.  Momentum and volatility are in basis points (1 = 0.0001), so    *)
(* the thresholds 0.003 and -0.003 are 30 and -30.  Dividends and income   *)
(* are in tenths of a dollar, prices and cash in dollars.  Score is kept   *)
(* in tenths of a score point: chg*100*40 is 4 per basis point, vol*1000*8 *)
(* is 8 per basis point, income_score*10 is 100 per level, the ex-dividend *)
(* bonus 12 is 120.  Dates are day offsets from today.                     *)
(*                                                                         *)
(* An optional value (Python None or a value) is <<>> or <<v>>.            *)
(***************************************************************************)
EXTENDS Integers, Sequences, FiniteSets, TLC

VARIABLES
    pc,                 \* position of the script run
    error,              \* the exception that ended the run, "" if none
    cash_balance,       \* app.py:39
    bench_change,       \* app.py:76, optional
    mode,               \* app.py:78-83
    etf_i,              \* position of the analysis loop in ETF_LIST (app.py:104)
    nodata,             \* tickers whose get_intraday returned None (app.py:107)
    rows,               \* app.py:98, 133
    portfolio_value,    \* app.py:101, 119
    monthly_income_now, \* app.py:102, 121
    df,                 \* app.py:138-141, 172 (Signal is the column signals)
    top_etf,            \* app.py:147
    rotation_cash,      \* app.py:148, 163
    sell_orders,        \* app.py:149, 164
    signals,            \* app.py:151, 170
    buy_shares,         \* app.py:175
    income_after,       \* app.py:219-221
    divs,               \* get_next_exdiv: the provider's "historical" list (app.py:57)
    exdiv_result,       \* get_next_exdiv: what the call returned (app.py:62, 65)
    trading_days,       \* aligner: the known trading days
    target_date,        \* aligner: the date of the last call, optional
    aligned,            \* aligner: the result of the last call, optional
    prev_target,        \* aligner: the date of the call before, optional
    prev_aligned,       \* aligner: the result of the call before, optional
    buy_range,          \* sweep: <<buy_min, buy_max>>
    sell_range,         \* sweep: <<sell_min, sell_max>>
    cell,               \* sweep: the grid cell the nested loop is at
    scored,             \* sweep: the pairs the pipeline was run for
    sweep_results,      \* sweep: the SweepResult rows, in order
    best                \* sweep: the best row so far, optional

appVars == <<pc, error, cash_balance, bench_change, mode, etf_i, nodata, rows,
             portfolio_value, monthly_income_now, df, top_etf, rotation_cash,
             sell_orders, signals, buy_shares, income_after>>

exdivVars == <<divs, exdiv_result>>

alignVars == <<trading_days, target_date, aligned, prev_target, prev_aligned>>

sweepVars == <<buy_range, sell_range, cell, scored, sweep_results, best>>

vars == <<appVars, exdivVars, alignVars, sweepVars>>

----
\* Optional values.

None == << >>

Some(v) == <<v>>

IsNone(x) == x = << >>

Val(x) == x[1]

----
\* Program constants.

ETF_LIST == <<"QDTE", "XDTE", "CHPY", "AIPI", "JEPQ">>

\* 0.003 in basis points
RiskThreshold == 30

\* datetime.utcnow().date(), the origin of the day offsets
today == 0

----
\* An entry of the provider's "historical" list (app.py:57-62).

Entry(d, v) == [parses |-> TRUE, date |-> d, dividend |-> v]

BadEntry == [parses |-> FALSE, date |-> 0, dividend |-> 0]

----
\* Bounds of the model and the inputs a run draws.

\* At most this many tickers of ETF_LIST have intraday data in one run.
MaxWithData == 2

\* What the script reads of one ticker's intraday frame: chg, vol and the
\* last close.
IntradayData ==
    { [chg |-> -50, vol |-> 5, price |-> 2],
      [chg |-> 20, vol |-> 0, price |-> 1] }

\* The provider's dividend histories, newest first as the provider lists them.
DivHistories ==
    { << >>,
      << Entry(1, 4), Entry(-29, 4) >>,
      << Entry(4, 9), Entry(-3, 9) >>,
      << Entry(37, 5), Entry(7, 5) >> }

ShareChoices == {0, 3}

CashChoices == {0, 5}

BenchMoves == {-31, -30, 0, 30, 31}

----
\* Market mode (app.py:78-83).

\* The thresholds taken inclusively.
MarketModeInclusive(m) ==
    IF m >= RiskThreshold THEN "RISK-ON"
    ELSE IF m <= -RiskThreshold THEN "RISK-OFF"
    ELSE "NEUTRAL"

MarketMode(m) ==
    IF m > RiskThreshold THEN "RISK-ON"
    ELSE IF m < -RiskThreshold THEN "RISK-OFF"
    ELSE "NEUTRAL"

----
\* get_next_exdiv (app.py:52-65).  An entry whose date does not parse raises
\* in strptime; the exception is swallowed and the call returns (None, None).

RECURSIVE ScanDivs(_, _)
ScanDivs(h, i) ==
    IF i > Len(h) THEN None
    ELSE IF ~h[i].parses THEN None
    ELSE IF h[i].date >= today THEN Some([ex |-> h[i].date, dividend |-> h[i].dividend])
    ELSE ScanDivs(h, i + 1)

get_next_exdiv(h) == ScanDivs(h, 1)

----
\* ETF analysis (app.py:104-136).

IncomeScore(dividend) ==
    IF IsNone(dividend) \/ Val(dividend) = 0 THEN 0
    ELSE IF Val(dividend) > 8 THEN 3
    ELSE IF Val(dividend) > 4 THEN 2
    ELSE 1

ExDivBonus(days) ==
    IF ~IsNone(days) /\ 0 <= Val(days) /\ Val(days) <= 5 THEN 120 ELSE 0

Score(chg, vol, dividend, days) ==
    chg * 4 - vol * 8 + IncomeScore(dividend) * 100 + ExDivBonus(days)

MakeRow(etf, data, nx, shares) ==
    LET dividend == IF IsNone(nx) THEN None ELSE Some(Val(nx).dividend)
        exdiv    == IF IsNone(nx) THEN None ELSE Some(Val(nx).ex)
        days     == IF IsNone(exdiv) THEN None ELSE Some(Val(exdiv) - today)
    IN  [ETF |-> etf, Shares |-> shares, Price |-> data.price,
         Value |-> shares * data.price, Dividend |-> dividend,
         ExDiv |-> exdiv, Days |-> days, Momentum |-> data.chg,
         Volatility |-> data.vol,
         Score |-> Score(data.chg, data.vol, dividend, days)]

IncomeOf(row) ==
    IF IsNone(row.Dividend) \/ Val(row.Dividend) = 0 THEN 0
    ELSE row.Shares * Val(row.Dividend)

----
\* The sorted frame (app.py:138-141): rows by Score, descending.  The sort is
\* pandas' default quicksort, which fixes no order among equal scores.

IsDescending(s) == \A i \in 1..(Len(s) - 1) : s[i].Score >= s[i + 1].Score

Reorder(s, p) == [i \in 1..Len(s) |-> s[p[i]]]

SortedFrames(s) ==
    { Reorder(s, p) : p \in { q \in Permutations(1..Len(s)) : IsDescending(Reorder(s, q)) } }

----
\* Rotation engine (app.py:147-176).

\* The REDUCE branch taken whatever the mode.
SignalIgnoringMode(r, topScore, topEtf, m) ==
    IF ~IsNone(r.Days) /\ Val(r.Days) <= 2 THEN "HOLD (Ex-Div Soon)"
    ELSE IF r.Momentum < 0 THEN "REDUCE"
    ELSE IF 10 * r.Score < 6 * topScore /\ r.Shares > 0 THEN "ROTATE"
    ELSE IF r.ETF = topEtf THEN "BUY / ADD"
    ELSE "HOLD"

SignalOf(r, topScore, topEtf, m) ==
    IF ~IsNone(r.Days) /\ Val(r.Days) <= 2 THEN "HOLD (Ex-Div Soon)"
    ELSE IF m = "RISK-OFF" /\ r.Momentum < 0 THEN "REDUCE"
    ELSE IF 10 * r.Score < 6 * topScore /\ r.Shares > 0 THEN "ROTATE"
    ELSE IF r.ETF = topEtf THEN "BUY / ADD"
    ELSE "HOLD"

\* The state of the loop after the first n rows of the frame.
RECURSIVE RotationLoop(_, _, _, _)
RotationLoop(frame, n, m, cash) ==
    IF n = 0 THEN [cash |-> cash, orders |-> << >>, sigs |-> << >>]
    ELSE LET before == RotationLoop(frame, n - 1, m, cash)
             r      == frame[n]
             sig    == SignalOf(r, frame[1].Score, frame[1].ETF, m)
             value  == r.Shares * r.Price
         IN  IF sig = "ROTATE"
             THEN [cash   |-> before.cash + value,
                   orders |-> Append(before.orders,
                                     [ETF |-> r.ETF, Shares |-> r.Shares, Value |-> value]),
                   sigs   |-> Append(before.sigs, sig)]
             ELSE [before EXCEPT !.sigs = Append(before.sigs, sig)]

RowOf(frame, etf) == frame[CHOOSE i \in 1..Len(frame) : frame[i].ETF = etf]

----
\* Income tracking (app.py:219-230).  The Dividend column of the frame is a
\* float column, with NaN for None, as soon as one row has a dividend, and an
\* object column holding None when no row has one.

FloatColumn(frame) == \E i \in 1..Len(frame) : ~IsNone(frame[i].Dividend)

\* A cell of the Dividend column: "num", "nan" or "none".
DividendCell(frame, etf) ==
    LET d == RowOf(frame, etf).Dividend
    IN  IF ~IsNone(d) THEN [kind |-> "num", val |-> Val(d)]
        ELSE IF FloatColumn(frame) THEN [kind |-> "nan", val |-> 0]
        ELSE [kind |-> "none", val |-> 0]

\* `if cell`: NaN is truthy, None and 0.0 are not.
Truthy(c) == c.kind = "nan" \/ (c.kind = "num" /\ c.val /= 0)

Times(n, c) ==
    IF c.kind = "num" THEN [kind |-> "num", val |-> n * c.val] ELSE [c EXCEPT !.val = 0]

Plus(a, b) ==
    IF a.kind = "num" /\ b.kind = "num" THEN [kind |-> "num", val |-> a.val + b.val]
    ELSE [kind |-> "nan", val |-> 0]

Minus(a, b) == Plus(a, [b EXCEPT !.val = 0 - b.val])

RECURSIVE SoldIncome(_, _, _)
SoldIncome(frame, orders, n) ==
    IF n = 0 THEN [kind |-> "num", val |-> 0]
    ELSE LET c == DividendCell(frame, orders[n].ETF)
         IN  IF Truthy(c)
             THEN Plus(SoldIncome(frame, orders, n - 1), Times(orders[n].Shares, c))
             ELSE SoldIncome(frame, orders, n - 1)

IncomeAfter(frame, orders, topEtf, bought, incomeNow) ==
    Plus(Minus([kind |-> "num", val |-> incomeNow],
               SoldIncome(frame, orders, Len(orders))),
         Times(bought, DividendCell(frame, topEtf)))

Unset == [kind |-> "unset", val |-> 0]

\* st.progress(min(income_after / TARGET_INCOME, 1.0)) (app.py:230) accepts a
\* value in [0.0, 1.0] and raises for any other, NaN included; TARGET_INCOME
\* is positive, so the value is in range exactly when income_after is a
\* number that is not negative.
ProgressAccepts(after) == after.kind = "num" /\ after.val >= 0

----
\* The run of the script.

AppInit ==
    /\ pc = "market"
    /\ error = ""
    /\ cash_balance \in CashChoices
    /\ bench_change = None
    /\ mode = ""
    /\ etf_i = 1
    /\ nodata = {}
    /\ rows = << >>
    /\ portfolio_value = 0
    /\ monthly_income_now = 0
    /\ df = << >>
    /\ top_etf = ""
    /\ rotation_cash = 0
    /\ sell_orders = << >>
    /\ signals = << >>
    /\ buy_shares = 0
    /\ income_after = Unset

AppIdle ==
    /\ error = ""
    /\ cash_balance = 0
    /\ bench_change = None
    /\ mode = ""
    /\ etf_i = 1
    /\ nodata = {}
    /\ rows = << >>
    /\ portfolio_value = 0
    /\ monthly_income_now = 0
    /\ df = << >>
    /\ top_etf = ""
    /\ rotation_cash = 0
    /\ sell_orders = << >>
    /\ signals = << >>
    /\ buy_shares = 0
    /\ income_after = Unset

ExDivIdle == divs = << >> /\ exdiv_result = None

AlignIdle ==
    /\ trading_days = {}
    /\ target_date = None
    /\ aligned = None
    /\ prev_target = None
    /\ prev_aligned = None

SweepIdle ==
    /\ buy_range = <<0, 0>>
    /\ sell_range = <<0, 0>>
    /\ cell = <<0, 0>>
    /\ scored = {}
    /\ sweep_results = << >>
    /\ best = None

\* app.py:71-74: no benchmark data, st.stop().
MarketStop ==
    /\ pc = "market"
    /\ pc' = "stopped"
    /\ UNCHANGED <<error, cash_balance, bench_change, mode, etf_i, nodata, rows,
                   portfolio_value, monthly_income_now, df, top_etf, rotation_cash,
                   sell_orders, signals, buy_shares, income_after>>
    /\ UNCHANGED <<exdivVars, alignVars, sweepVars>>

\* app.py:71-92: the benchmark's move over the window and the mode.
ClassifyMarket ==
    /\ pc = "market"
    /\ \E m \in BenchMoves :
          /\ bench_change' = Some(m)
          /\ mode' = MarketMode(m)
    /\ pc' = "analysis"
    /\ UNCHANGED <<error, cash_balance, etf_i, nodata, rows,
                   portfolio_value, monthly_income_now, df, top_etf, rotation_cash,
                   sell_orders, signals, buy_shares, income_after>>
    /\ UNCHANGED <<exdivVars, alignVars, sweepVars>>

\* The loop left at the first ticker without data (break for continue).
BreakOnSkip(i) == Len(ETF_LIST) + 1

\* Where the loop goes after a ticker without data (app.py:107-108: continue).
AfterSkip(i) == i + 1

\* app.py:106-108: get_intraday returned None for ETF_LIST[etf_i].
AnalyseSkip ==
    /\ pc = "analysis"
    /\ etf_i <= Len(ETF_LIST)
    /\ nodata' = nodata \cup {ETF_LIST[etf_i]}
    /\ etf_i' = AfterSkip(etf_i)
    /\ UNCHANGED <<pc, error, cash_balance, bench_change, mode, rows,
                   portfolio_value, monthly_income_now, df, top_etf, rotation_cash,
                   sell_orders, signals, buy_shares, income_after>>
    /\ UNCHANGED <<exdivVars, alignVars, sweepVars>>

\* app.py:106-136: one ticker with data.
AnalyseRow ==
    /\ pc = "analysis"
    /\ etf_i <= Len(ETF_LIST)
    /\ Len(rows) < MaxWithData
    /\ \E data \in IntradayData, h \in DivHistories, shares \in ShareChoices :
          LET row == MakeRow(ETF_LIST[etf_i], data, get_next_exdiv(h), shares)
          IN  /\ rows' = Append(rows, row)
              /\ portfolio_value' = portfolio_value + row.Value
              /\ monthly_income_now' = monthly_income_now + IncomeOf(row)
    /\ etf_i' = etf_i + 1
    /\ UNCHANGED <<pc, error, cash_balance, bench_change, mode, nodata,
                   df, top_etf, rotation_cash,
                   sell_orders, signals, buy_shares, income_after>>
    /\ UNCHANGED <<exdivVars, alignVars, sweepVars>>

\* app.py:138-141: the frame, sorted by Score.
BuildFrame ==
    /\ pc = "analysis"
    /\ etf_i > Len(ETF_LIST)
    /\ df' \in SortedFrames(rows)
    /\ pc' = "rotation"
    /\ UNCHANGED <<error, cash_balance, bench_change, mode, etf_i, nodata, rows,
                   portfolio_value, monthly_income_now, top_etf, rotation_cash,
                   sell_orders, signals, buy_shares, income_after>>
    /\ UNCHANGED <<exdivVars, alignVars, sweepVars>>

\* app.py:147: df.iloc[0] of an empty frame raises IndexError.
RotationEmpty ==
    /\ pc = "rotation"
    /\ Len(df) = 0
    /\ pc' = "raised"
    /\ error' = "IndexError"
    /\ UNCHANGED <<cash_balance, bench_change, mode, etf_i, nodata, rows,
                   portfolio_value, monthly_income_now, df, top_etf, rotation_cash,
                   sell_orders, signals, buy_shares, income_after>>
    /\ UNCHANGED <<exdivVars, alignVars, sweepVars>>

\* app.py:147-176: the signals, the sell orders and the shares to buy.
RotationEngine ==
    /\ pc = "rotation"
    /\ Len(df) > 0
    /\ LET out == RotationLoop(df, Len(df), mode, cash_balance)
       IN  /\ top_etf' = df[1].ETF
           /\ rotation_cash' = out.cash
           /\ sell_orders' = out.orders
           /\ signals' = out.sigs
           /\ buy_shares' = out.cash \div df[1].Price
    /\ pc' = "income"
    /\ UNCHANGED <<error, cash_balance, bench_change, mode, etf_i, nodata, rows,
                   portfolio_value, monthly_income_now, df, income_after>>
    /\ UNCHANGED <<exdivVars, alignVars, sweepVars>>

\* app.py:219-221 with an object Dividend column: buy_shares * None raises.
IncomeTypeError ==
    /\ pc = "income"
    /\ DividendCell(df, top_etf).kind = "none"
    /\ pc' = "raised"
    /\ error' = "TypeError"
    /\ UNCHANGED <<cash_balance, bench_change, mode, etf_i, nodata, rows,
                   portfolio_value, monthly_income_now, df, top_etf, rotation_cash,
                   sell_orders, signals, buy_shares, income_after>>
    /\ UNCHANGED <<exdivVars, alignVars, sweepVars>>

\* app.py:219-230: income_after, the metrics and the progress bar.
IncomeTracking ==
    /\ pc = "income"
    /\ DividendCell(df, top_etf).kind /= "none"
    /\ LET after == IncomeAfter(df, sell_orders, top_etf, buy_shares, monthly_income_now)
       IN  /\ income_after' = after
           /\ IF ProgressAccepts(after)
              THEN pc' = "summary" /\ error' = error
              ELSE pc' = "raised" /\ error' = "StreamlitAPIException"
    /\ UNCHANGED <<cash_balance, bench_change, mode, etf_i, nodata, rows,
                   portfolio_value, monthly_income_now, df, top_etf, rotation_cash,
                   sell_orders, signals, buy_shares>>
    /\ UNCHANGED <<exdivVars, alignVars, sweepVars>>

\* app.py:236-253: the charts and the summary end the run.
Summary ==
    /\ pc = "summary"
    /\ pc' = "done"
    /\ UNCHANGED <<error, cash_balance, bench_change, mode, etf_i, nodata, rows,
                   portfolio_value, monthly_income_now, df, top_etf, rotation_cash,
                   sell_orders, signals, buy_shares, income_after>>
    /\ UNCHANGED <<exdivVars, alignVars, sweepVars>>

Init == AppInit /\ ExDivIdle /\ AlignIdle /\ SweepIdle

Next ==
    \/ MarketStop
    \/ ClassifyMarket
    \/ AnalyseSkip
    \/ AnalyseRow
    \/ BuildFrame
    \/ RotationEmpty
    \/ RotationEngine
    \/ IncomeTypeError
    \/ IncomeTracking
    \/ Summary

Spec == Init /\ [][Next]_vars

----
\* get_next_exdiv called on its own (app.py:52-65).

\* The longest "historical" list drawn.
MaxDivs == 3

\* The entries drawn: ex-dates around today, each with its own amount, and
\* one entry that does not parse.
EntryChoices == { Entry(d, d + 5) : d \in -1..2 } \cup { BadEntry }

Histories == UNION { [1..n -> EntryChoices] : n \in 0..MaxDivs }

ExDivInit ==
    /\ AppIdle
    /\ pc = "exdiv"
    /\ divs \in Histories
    /\ exdiv_result = None

GetNextExDiv ==
    /\ pc = "exdiv"
    /\ exdiv_result' = get_next_exdiv(divs)
    /\ pc' = "exdiv_done"
    /\ UNCHANGED <<error, cash_balance, bench_change, mode, etf_i, nodata, rows,
                   portfolio_value, monthly_income_now, df, top_etf, rotation_cash,
                   sell_orders, signals, buy_shares, income_after>>
    /\ UNCHANGED <<divs, alignVars, sweepVars>>

InitExDiv == ExDivInit /\ AlignIdle /\ SweepIdle

SpecExDiv == InitExDiv /\ [][GetNextExDiv]_vars

----
\* Trading-calendar aligner (spec 4.1): align(target_date, trading_days).

\* Days are 0..MaxDay; a target may lie one day past the last.
MaxDay == 4

SetMax(S) == CHOOSE x \in S : \A y \in S : y <= x

\* The latest trading day strictly before the target, also for a trading day.
alignStrictlyBefore(t, days) ==
    LET before == { d \in days : d < t }
    IN  IF before = {} THEN None ELSE Some(SetMax(before))

align(t, days) ==
    IF t \in days THEN Some(t)
    ELSE LET before == { d \in days : d < t }
         IN  IF before = {} THEN None ELSE Some(SetMax(before))

AlignInit ==
    /\ AppIdle
    /\ pc = "align"
    /\ trading_days \in SUBSET (0..MaxDay)
    /\ target_date = None
    /\ aligned = None
    /\ prev_target = None
    /\ prev_aligned = None

\* One call; the call before it is kept for comparison.
AlignCall ==
    /\ pc = "align"
    /\ \E t \in 0..(MaxDay + 1) :
          /\ target_date' = Some(t)
          /\ aligned' = align(t, trading_days)
    /\ prev_target' = target_date
    /\ prev_aligned' = aligned
    /\ UNCHANGED <<appVars, exdivVars, sweepVars, trading_days>>

InitAlign == AlignInit /\ ExDivIdle /\ SweepIdle

SpecAlign == InitAlign /\ [][AlignCall]_vars

----
\* Parameter sweep (spec 4.6): the grid of (buy, sell) offsets, ascending buy,
\* then ascending sell.

\* Offsets are 0..MaxOffset.
MaxOffset == 3

Ranges == { r \in (0..MaxOffset) \X (0..MaxOffset) : r[1] <= r[2] }

\* The total compounded returns a scored pair may have.
Returns == {0, 1}

\* Only sell > buy skipped.
SkippedWhenGreater(buy, sell) == sell > buy

\* The ordering constraint: a pair is skipped when it holds.
Skipped(buy, sell) == sell >= buy

NextCell(c) ==
    IF c[2] < sell_range[2] THEN <<c[1], c[2] + 1>> ELSE <<c[1] + 1, sell_range[1]>>

InGrid(c) == c[1] <= buy_range[2]

\* First pair encountered wins ties.
Better(row, b) == IF IsNone(b) \/ row.total_return > Val(b).total_return THEN Some(row) ELSE b

SweepInit ==
    /\ AppIdle
    /\ pc = "sweep"
    /\ buy_range \in Ranges
    /\ sell_range \in Ranges
    /\ cell = <<buy_range[1], sell_range[1]>>
    /\ scored = {}
    /\ sweep_results = << >>
    /\ best = None

\* A pair violating the ordering constraint: skipped entirely.
SweepSkip ==
    /\ pc = "sweep"
    /\ InGrid(cell)
    /\ Skipped(cell[1], cell[2])
    /\ cell' = NextCell(cell)
    /\ UNCHANGED <<appVars, exdivVars, alignVars, buy_range, sell_range, scored,
                   sweep_results, best>>

\* A valid pair whose backtest produced no trade: no row.
SweepNoTrades ==
    /\ pc = "sweep"
    /\ InGrid(cell)
    /\ ~Skipped(cell[1], cell[2])
    /\ scored' = scored \cup {cell}
    /\ cell' = NextCell(cell)
    /\ UNCHANGED <<appVars, exdivVars, alignVars, buy_range, sell_range,
                   sweep_results, best>>

\* A valid pair with trades: one row, and the best so far.
SweepRecord ==
    /\ pc = "sweep"
    /\ InGrid(cell)
    /\ ~Skipped(cell[1], cell[2])
    /\ \E ret \in Returns :
          LET row == [buy |-> cell[1], sell |-> cell[2], total_return |-> ret]
          IN  /\ sweep_results' = Append(sweep_results, row)
              /\ best' = Better(row, best)
    /\ scored' = scored \cup {cell}
    /\ cell' = NextCell(cell)
    /\ UNCHANGED <<appVars, exdivVars, alignVars, buy_range, sell_range>>

\* The grid is exhausted: the best pair, or "no valid parameters".
SweepFinish ==
    /\ pc = "sweep"
    /\ ~InGrid(cell)
    /\ pc' = IF IsNone(best) THEN "no_valid_params" ELSE "sweep_done"
    /\ UNCHANGED <<error, cash_balance, bench_change, mode, etf_i, nodata, rows,
                   portfolio_value, monthly_income_now, df, top_etf, rotation_cash,
                   sell_orders, signals, buy_shares, income_after>>
    /\ UNCHANGED <<exdivVars, alignVars, sweepVars>>

SweepNext ==
    \/ SweepSkip
    \/ SweepNoTrades
    \/ SweepRecord
    \/ SweepFinish

InitSweep == SweepInit /\ ExDivIdle /\ AlignIdle

SpecSweep == InitSweep /\ [][SweepNext]_vars

----
\* Properties of the run of the script.

Tickers == { ETF_LIST[i] : i \in 1..Len(ETF_LIST) }

Position(etf) == CHOOSE i \in 1..Len(ETF_LIST) : ETF_LIST[i] = etf

\* The frame has been built (app.py:141 was reached).
FrameBuilt == pc \in {"rotation", "income", "summary", "done", "raised"}

\* The rotation engine has run to its end (app.py:176 was reached).
RotationDone == top_etf /= ""

\* The run is over, by the summary or by an exception.
RunEnded == pc \in {"done", "raised"}

\* C1: the mode is RISK-ON exactly when the benchmark's move is above +0.003,
\* RISK-OFF exactly when it is below -0.003 and NEUTRAL otherwise, the two
\* boundary values included; one mode per run.
ModeClassified ==
    ~IsNone(bench_change) =>
        LET m == Val(bench_change)
        IN  /\ mode \in {"RISK-ON", "RISK-OFF", "NEUTRAL"}
            /\ (mode = "RISK-ON") <=> (m > 30)
            /\ (mode = "RISK-OFF") <=> (m < -30)
            /\ (mode = "NEUTRAL") <=> (-30 <= m /\ m <= 30)

\* A run whose benchmark moved by exactly +0.003.
ModeBoundaryNeutral ==
    /\ pc = "analysis"
    /\ bench_change = Some(30)
    /\ mode = "NEUTRAL"

\* C2: every ticker without intraday data is skipped without raising, and every
\* other ticker has exactly one row in the frame and one signal, provided at
\* least one ticker has data.
RowsForTickersWithData ==
    /\ FrameBuilt =>
          /\ \A etf \in nodata : \A i \in 1..Len(df) : df[i].ETF /= etf
          /\ \A etf \in Tickers \ nodata :
                Cardinality({ i \in 1..Len(df) : df[i].ETF = etf }) = 1
          /\ Len(df) = Cardinality(Tickers \ nodata)
    /\ (FrameBuilt /\ nodata /= Tickers) =>
          /\ error /= "IndexError"
          /\ pc /= "rotation" => (RotationDone /\ Len(signals) = Len(df))

\* Two tickers with rows and signals, each after a ticker without data.
SkippedTickerThenRows ==
    /\ pc = "income"
    /\ "QDTE" \in nodata
    /\ "CHPY" \in nodata
    /\ Len(df) = 2
    /\ Len(signals) = 2

\* C3: a ticker with no dividend data, beside a ticker that has some, leaves
\* the run ending at the summary with a numeric income_after.
NoDividendTickerHarmless ==
    ( /\ RunEnded
      /\ \E i \in 1..Len(df) : IsNone(df[i].Dividend)
      /\ \E i \in 1..Len(df) : ~IsNone(df[i].Dividend) )
    => (pc = "done" /\ income_after.kind = "num")

\* C4: with benchmark data and no ticker with data the run ends with an
\* empty-result message, not an exception.
EmptyResultNotRaised ==
    (FrameBuilt /\ nodata = Tickers) => pc /= "raised"

\* C5 (as claimed): in RISK-OFF every analysed ticker with negative momentum has
\* the REDUCE signal; in RISK-ON and NEUTRAL none has it.
ReduceAllLosersInRiskOff ==
    RotationDone =>
        /\ mode = "RISK-OFF" =>
              \A i \in 1..Len(df) : df[i].Momentum < 0 => signals[i] = "REDUCE"
        /\ mode /= "RISK-OFF" =>
              \A i \in 1..Len(df) : signals[i] /= "REDUCE"

\* C5 (amended): in RISK-OFF every analysed ticker with negative momentum whose
\* ex-dividend date is unknown or more than 2 days away has the REDUCE signal;
\* in RISK-ON and NEUTRAL no ticker has it.
ReduceLosersNotNearExDiv ==
    RotationDone =>
        /\ mode = "RISK-OFF" =>
              \A i \in 1..Len(df) :
                  (df[i].Momentum < 0 /\ (IsNone(df[i].Days) \/ Val(df[i].Days) > 2))
                      => signals[i] = "REDUCE"
        /\ mode /= "RISK-OFF" =>
              \A i \in 1..Len(df) : signals[i] /= "REDUCE"

\* A RISK-OFF run with a reduced loser beside a ticker that is not losing.
ReducedInRiskOff ==
    /\ RotationDone
    /\ mode = "RISK-OFF"
    /\ \E i \in 1..Len(df) : df[i].Momentum < 0 /\ signals[i] = "REDUCE"
    /\ \E i \in 1..Len(df) : df[i].Momentum >= 0

TopNeverSold ==
    RotationDone =>
        /\ \A i \in 1..Len(df) : df[i].ETF = top_etf => signals[i] /= "ROTATE"
        /\ \A i \in 1..Len(sell_orders) : sell_orders[i].ETF /= top_etf

----
\* Properties of get_next_exdiv.

Upcoming(h) == { i \in 1..Len(h) : h[i].parses /\ h[i].date >= today }

\* C10: on a history whose entries all parse, the result is the entry with
\* the earliest ex-date on or after today, with its amount, and (None, None)
\* exactly when there is no such entry.
NextExDivIsEarliest ==
    (pc = "exdiv_done" /\ \A i \in 1..Len(divs) : divs[i].parses) =>
        /\ IsNone(exdiv_result) <=> Upcoming(divs) = {}
        /\ ~IsNone(exdiv_result) =>
              /\ \E i \in Upcoming(divs) :
                    /\ divs[i].date = Val(exdiv_result).ex
                    /\ divs[i].dividend = Val(exdiv_result).dividend
              /\ \A i \in Upcoming(divs) : Val(exdiv_result).ex <= divs[i].date

----
\* Properties of the aligner.

AtOrBefore(t, days) == { d \in days : d <= t }

\* C6: align returns the greatest trading day at or before the target, the
\* target itself when it is a trading day, and NONE exactly when there is no
\* trading day at or before it; it is idempotent on its results and monotone
\* in the target.
AlignGreatestAtOrBefore ==
    ~IsNone(target_date) =>
        LET t == Val(target_date)
            c == AtOrBefore(t, trading_days)
        IN  /\ IsNone(aligned) <=> c = {}
            /\ t \in trading_days => aligned = Some(t)
            /\ ~IsNone(aligned) =>
                  /\ Val(aligned) \in c
                  /\ \A d \in c : d <= Val(aligned)
                  /\ align(Val(aligned), trading_days) = aligned
            /\ ( /\ ~IsNone(prev_aligned)
                 /\ ~IsNone(aligned)
                 /\ Val(prev_target) < t ) => Val(prev_aligned) <= Val(aligned)

\* A target that is no trading day, aligned across a gap, after a call on a
\* trading day before it.
AlignedToEarlierDay ==
    /\ ~IsNone(target_date)
    /\ Val(target_date) \notin trading_days
    /\ ~IsNone(aligned)
    /\ Val(aligned) < Val(target_date) - 1
    /\ ~IsNone(prev_aligned)
    /\ Val(prev_target) < Val(target_date)
    /\ Val(prev_target) \in trading_days

----
\* Properties of the sweep.

InRange(x, r) == r[1] <= x /\ x <= r[2]

ValidPairs ==
    { c \in (buy_range[1]..buy_range[2]) \X (sell_range[1]..sell_range[2]) : c[2] < c[1] }

\* C7: every SweepResult row has its buy and sell offsets in their ranges and
\* sell < buy; a pair with sell >= buy is never scored nor recorded; a pair
\* without trades has no row and is not the best; the pairs scored are
\* exactly the valid pairs of the grid.
GridConstraint ==
    /\ \A i \in 1..Len(sweep_results) :
          /\ InRange(sweep_results[i].buy, buy_range)
          /\ InRange(sweep_results[i].sell, sell_range)
          /\ sweep_results[i].sell < sweep_results[i].buy
          /\ <<sweep_results[i].buy, sweep_results[i].sell>> \in scored
    /\ \A c \in scored : c[2] < c[1]
    /\ ~IsNone(best) => \E i \in 1..Len(sweep_results) : sweep_results[i] = Val(best)
    /\ pc \in {"sweep_done", "no_valid_params"} => scored = ValidPairs

\* Scenario D swept to its end, two of its six pairs without trades.
ScenarioDSwept ==
    /\ pc = "sweep_done"
    /\ buy_range = <<1, 3>>
    /\ sell_range = <<0, 2>>
    /\ scored = {<<1, 0>>, <<2, 0>>, <<2, 1>>, <<3, 0>>, <<3, 1>>, <<3, 2>>}
    /\ Len(sweep_results) = 4

====
